---- MODULE Spec2Model ----
(***************************************************************************)
(* Priority arbitration, workload probing, assignment routing, analysis    *)
(* generation, ticket store writes and the process_tickets pipeline of     *)
(* DevOpsAutomationService (src/devops_service.py), configured by          *)
(* src/config.py.                                                          *)
(*                                                                         *)
(* Text is a tuple of one-character strings, so that lower(), strip() and  *)
(* the substring test `a in b` are computed rather than assumed.           *)
(***************************************************************************)
EXTENDS Integers, Sequences, FiniteSets, TLC

VARIABLES
    TEST_MODE,      \* Config.TEST_MODE
    L1_MEMBERS,     \* Config.L1_MEMBERS, in configured order
    L2_MEMBERS,     \* Config.L2_MEMBERS, in configured order
    ticket,         \* the ticket dict a call is made with
    arb,            \* what analyze_priority_and_environment returned
    probe,          \* the last get_user_workload call and what it returned
    route,          \* the last find_best_assignee call and what it returned
    gen,            \* the last analyze_with_ollama call and what it returned
    run,            \* a process_tickets call: its locals and where it stands
    store,          \* the Redmine issue assign_ticket_in_redmine writes to
    assign,         \* the assign_ticket_in_redmine calls made and what they returned
    redmine,        \* the issues of the Redmine project that concurrent runs share
    runs            \* the process_tickets calls under way at the same time

vars == <<TEST_MODE, L1_MEMBERS, L2_MEMBERS, ticket, arb, probe, route, gen, run,
          store, assign, redmine, runs>>

\* "no call made yet" / "no value"
Nil == [nil |-> TRUE]

-----------------------------------------------------------------------------
(* Bounds of the model *)

\* longest environment tag enumerated exhaustively over TagAlphabet
MaxTagLen == 4

\* active-ticket counts 0..MaxLoad are enumerated, besides the counts at the
\* capacity of a Tier1 member and at the sentinel
MaxLoad == 1

-----------------------------------------------------------------------------
(* Text *)

Whitespace == {" ", "\t", "\n"}

LowerChar(c) ==
    CASE c = "A" -> "a" [] c = "B" -> "b" [] c = "C" -> "c" [] c = "D" -> "d"
      [] c = "E" -> "e" [] c = "F" -> "f" [] c = "G" -> "g" [] c = "H" -> "h"
      [] c = "I" -> "i" [] c = "J" -> "j" [] c = "K" -> "k" [] c = "L" -> "l"
      [] c = "M" -> "m" [] c = "N" -> "n" [] c = "O" -> "o" [] c = "P" -> "p"
      [] c = "Q" -> "q" [] c = "R" -> "r" [] c = "S" -> "s" [] c = "T" -> "t"
      [] c = "U" -> "u" [] c = "V" -> "v" [] c = "W" -> "w" [] c = "X" -> "x"
      [] c = "Y" -> "y" [] c = "Z" -> "z" [] OTHER -> c

UpperChar(c) ==
    CASE c = "a" -> "A" [] c = "b" -> "B" [] c = "c" -> "C" [] c = "d" -> "D"
      [] c = "e" -> "E" [] c = "f" -> "F" [] c = "g" -> "G" [] c = "h" -> "H"
      [] c = "i" -> "I" [] c = "j" -> "J" [] c = "k" -> "K" [] c = "l" -> "L"
      [] c = "m" -> "M" [] c = "n" -> "N" [] c = "o" -> "O" [] c = "p" -> "P"
      [] c = "q" -> "Q" [] c = "r" -> "R" [] c = "s" -> "S" [] c = "t" -> "T"
      [] c = "u" -> "U" [] c = "v" -> "V" [] c = "w" -> "W" [] c = "x" -> "X"
      [] c = "y" -> "Y" [] c = "z" -> "Z" [] OTHER -> c

\* str.lower()
Lower(s) == [i \in 1..Len(s) |-> LowerChar(s[i])]

\* str.upper()
Upper(s) == [i \in 1..Len(s) |-> UpperChar(s[i])]

\* str.strip(): whitespace removed at both ends
Strip(s) ==
    LET solid == {i \in 1..Len(s) : s[i] \notin Whitespace}
    IN  IF solid = {} THEN <<>>
        ELSE LET first == CHOOSE i \in solid : \A j \in solid : i <= j
                 last  == CHOOSE i \in solid : \A j \in solid : j <= i
             IN  SubSeq(s, first, last)

\* `needle in hay` for two str
StrIn(needle, hay) ==
    \E i \in 1..(Len(hay) + 1) :
        /\ i + Len(needle) - 1 <= Len(hay)
        /\ SubSeq(hay, i, i + Len(needle) - 1) = needle

-----------------------------------------------------------------------------
(* Configuration: src/config.py *)

\* Config.CRITICAL_ENVIRONMENTS = ["prod", "production", "live"]
CRITICAL_ENVIRONMENTS ==
    << <<"p", "r", "o", "d">>,
       <<"p", "r", "o", "d", "u", "c", "t", "i", "o", "n">>,
       <<"l", "i", "v", "e">> >>

-----------------------------------------------------------------------------
(* Tickets *)

\* the names and ids of the Redmine priorities
PriorityNames ==
    {"P1(Critical)", "P2(High)", "P3(Medium)", "P4(Low)", "P5(Trivial)"}

\* PRIORITY_IDS of analyze_priority_and_environment
PRIORITY_IDS(name) ==
    CASE name = "P1(Critical)" -> 4
      [] name = "P2(High)"     -> 5
      [] name = "P3(Medium)"   -> 3
      [] name = "P4(Low)"      -> 2
      [] name = "P5(Trivial)"  -> 1

\* ticket['priority'] as Redmine reports it
Priorities == {[name |-> n, id |-> PRIORITY_IDS(n)] : n \in PriorityNames}

EnvField  == "Deployment Environment Tags"
JiraField == "Project Jira ID"

\* environment tags written out: aliases, aliases in other case or padded,
\* aliases inside longer tags, and tags that hold no alias
SampleTags ==
    { <<>>,
      <<" ">>,
      <<"p", "r", "o", "d">>,
      <<"P", "R", "O", "D">>,
      <<" ", "P", "r", "o", "d", " ">>,
      <<"p", "r", "o", "d", "u", "c", "t", "i", "o", "n">>,
      <<"P", "r", "o", "d", "u", "c", "t", "i", "o", "n">>,
      <<"l", "i", "v", "e">>,
      <<"L", "I", "V", "E", "\n">>,
      <<"p", "r", "o", "d", "-", "e", "a", "s", "t">>,
      <<"n", "o", "n", "p", "r", "o", "d">>,
      <<"p", "r", "e", "-", "l", "i", "v", "e">>,
      <<"D", "e", "v", "-", "P", "r", "o", "d">>,
      <<"d", "e", "v">>,
      <<"\t", "d", "e", "v", " ">>,
      <<"s", "t", "a", "g", "i", "n", "g">>,
      <<"u", "a", "t">>,
      <<"p", "r", "o">>,
      <<"p", " ", "r", "o", "d">>,
      <<"l", "i", "v">> }

TagAlphabet == {"p", "r", "o", "d", "P", " "}

\* every tag over TagAlphabet of at most MaxTagLen characters
ShortTags == UNION {[1..n -> TagAlphabet] : n \in 0..MaxTagLen}

Tags == SampleTags \cup ShortTags

\* one entry of ticket['custom_fields']; has_value is whether the entry has a
\* 'value' key
CustomField(name, has_value, value) ==
    [name |-> name, has_value |-> has_value, value |-> value]

\* the shapes of ticket['custom_fields'] for a tag: the field alone, behind
\* another field, without a 'value' key, and given twice
FieldShapes(tag) ==
    { <<CustomField(EnvField, TRUE, tag)>>,
      <<CustomField(JiraField, TRUE, <<"A">>), CustomField(EnvField, TRUE, tag)>>,
      <<CustomField(EnvField, TRUE, <<"d", "e", "v">>), CustomField(EnvField, TRUE, tag)>> }

NoTagShapes ==
    { <<>>,
      <<CustomField(JiraField, TRUE, <<"A">>)>>,
      <<CustomField(EnvField, FALSE, <<>>)>> }

\* the tickets analyze_priority_and_environment is called with
ArbiterTickets ==
    {[id |-> 1, priority |-> p, has_custom_fields |-> TRUE, custom_fields |-> cfs] :
        p \in Priorities,
        cfs \in NoTagShapes
                \cup UNION {FieldShapes(tag) : tag \in SampleTags}
                \cup {<<CustomField(EnvField, TRUE, tag)>> : tag \in ShortTags}}
    \cup
    {[id |-> 1, priority |-> p, has_custom_fields |-> FALSE, custom_fields |-> <<>>] :
        p \in Priorities}

-----------------------------------------------------------------------------
(* analyze_priority_and_environment *)

\* {cf['name']: cf.get('value', '') for cf in ticket.get('custom_fields', [])}
\* followed by .get(name, default): the last entry of that name decides
CustomFieldGet(t, name, default) ==
    LET cfs  == IF t.has_custom_fields THEN t.custom_fields ELSE <<>>
        hits == {i \in 1..Len(cfs) : cfs[i].name = name}
    IN  IF hits = {} THEN default
        ELSE LET last == CHOOSE i \in hits : \A j \in hits : j <= i
             IN  IF cfs[last].has_value THEN cfs[last].value ELSE <<>>

\* the operands of `in` exchanged
IsProduction_Swapped(environment) ==
    \E k \in 1..Len(CRITICAL_ENVIRONMENTS) : StrIn(environment, CRITICAL_ENVIRONMENTS[k])

\* any(env in environment for env in self.config.CRITICAL_ENVIRONMENTS)
IsProduction(environment) ==
    \E k \in 1..Len(CRITICAL_ENVIRONMENTS) : StrIn(CRITICAL_ENVIRONMENTS[k], environment)

\* .lower() left out
EnvironmentOf_NoLower(t) == Strip(CustomFieldGet(t, EnvField, <<>>))

\* custom_fields.get('Deployment Environment Tags', '').lower().strip()
EnvironmentOf(t) == Strip(Lower(CustomFieldGet(t, EnvField, <<>>)))

\* the test for P1(Critical) left out
analyze_priority_and_environment_AnyPriority(t) ==
    LET original_priority == t.priority.name
        environment       == EnvironmentOf(t)
    IN  IF ~IsProduction(environment)
        THEN [original_priority |-> original_priority,
              adjusted_priority |-> "P2(High)",
              environment       |-> environment,
              was_downgraded    |-> TRUE,
              new_priority_id   |-> PRIORITY_IDS("P2(High)")]
        ELSE [original_priority |-> original_priority,
              adjusted_priority |-> original_priority,
              environment       |-> environment,
              was_downgraded    |-> FALSE,
              new_priority_id   |-> t.priority.id]

analyze_priority_and_environment(t) ==
    LET original_priority == t.priority.name
        environment       == EnvironmentOf(t)
    IN  IF original_priority = "P1(Critical)" /\ ~IsProduction(environment)
        THEN [original_priority |-> original_priority,
              adjusted_priority |-> "P2(High)",
              environment       |-> environment,
              was_downgraded    |-> TRUE,
              new_priority_id   |-> PRIORITY_IDS("P2(High)")]
        ELSE [original_priority |-> original_priority,
              adjusted_priority |-> original_priority,
              environment       |-> environment,
              was_downgraded    |-> FALSE,
              new_priority_id   |-> t.priority.id]

InitArbiter ==
    /\ TEST_MODE = FALSE
    /\ L1_MEMBERS = <<>>
    /\ L2_MEMBERS = <<>>
    /\ ticket \in ArbiterTickets
    /\ arb = Nil
    /\ probe = Nil
    /\ route = Nil
    /\ gen = Nil
    /\ redmine = Nil
    /\ runs = Nil
    /\ run = Nil
    /\ store = Nil
    /\ assign = Nil

AnalyzePriority ==
    /\ ticket # Nil
    /\ arb = Nil
    /\ arb' = analyze_priority_and_environment(ticket)
    /\ UNCHANGED <<TEST_MODE, L1_MEMBERS, L2_MEMBERS, ticket, probe, route, gen, run,
                 store, assign, redmine, runs>>

NextArbiter == AnalyzePriority

SpecArbiter == InitArbiter /\ [][NextArbiter]_vars

-----------------------------------------------------------------------------
(* Claims C1 to C3: analyze_priority_and_environment *)

\* the tag a ticket declares: the value of its environment field, empty when
\* the field or its value is not there
DeclaredTag(t) == CustomFieldGet(t, EnvField, <<>>)

\* some production alias occurs in the tag, whatever the case of the letters
NamesProduction(tag) ==
    \E k \in 1..Len(CRITICAL_ENVIRONMENTS) :
        LET alias == CRITICAL_ENVIRONMENTS[k]
        IN  \E off \in 0..Len(tag) :
                /\ off + Len(alias) <= Len(tag)
                /\ \A j \in 1..Len(alias) : LowerChar(tag[off + j]) = alias[j]

\* C1: a Critical ticket whose environment tag is empty, unset, or holds no
\* production alias comes back as High (one step down, no lower) and
\* wasDowngraded is true.
C1_CriticalNonProductionDowngraded ==
    (arb # Nil /\ ticket.priority.name = "P1(Critical)"
               /\ ~NamesProduction(DeclaredTag(ticket)))
        => /\ arb.adjusted_priority = "P2(High)"
           /\ arb.new_priority_id = 5
           /\ arb.was_downgraded = TRUE

\* a Critical ticket with no environment field at all has been downgraded
C1_Witness ==
    /\ arb # Nil
    /\ ticket.priority.name = "P1(Critical)"
    /\ ticket.custom_fields = <<>>
    /\ arb.was_downgraded

\* C2: a Critical ticket whose tag, trimmed and lowercased, holds a
\* production alias as a substring stays Critical and wasDowngraded is false.
C2_CriticalProductionKept ==
    (arb # Nil /\ ticket.priority.name = "P1(Critical)"
               /\ NamesProduction(DeclaredTag(ticket)))
        => /\ arb.adjusted_priority = "P1(Critical)"
           /\ arb.new_priority_id = 4
           /\ arb.was_downgraded = FALSE

\* the Critical ticket tagged "prod-east" has been kept Critical
C2_Witness ==
    /\ arb # Nil
    /\ ticket.priority.name = "P1(Critical)"
    /\ DeclaredTag(ticket) = <<"p", "r", "o", "d", "-", "e", "a", "s", "t">>
    /\ arb.adjusted_priority = "P1(Critical)"

\* C3: a ticket declared below Critical keeps its declared urgency for every
\* environment tag, and wasDowngraded is false.
C3_BelowCriticalUnchanged ==
    (arb # Nil /\ ticket.priority.name # "P1(Critical)")
        => /\ arb.adjusted_priority = ticket.priority.name
           /\ arb.new_priority_id = ticket.priority.id
           /\ arb.was_downgraded = FALSE

\* a High ticket with no production tag has been analysed and kept High
C3_Witness ==
    /\ arb # Nil
    /\ ticket.priority.name = "P2(High)"
    /\ DeclaredTag(ticket) = <<"d", "e", "v">>
    /\ arb.adjusted_priority = "P2(High)"

-----------------------------------------------------------------------------
(* get_user_workload *)

\* the value returned when every method failed (devops_service.py line 166)
Sentinel == 999

\* max_tickets of every member of Config.L1_MEMBERS
MaxTickets == 5

\* the counts a workload query reports: the small ones, those just below, at
\* and above the Tier1 capacity, and the one that equals the sentinel
LoadValues ==
    (0..MaxLoad) \cup {MaxTickets - 1, MaxTickets, MaxTickets + 1, Sentinel}

\* what one _get_workload_method_N call does: it returns a count, it returns
\* None (method 1 alone: a 200 whose total_count is null), or it raises: on a
\* status other than 200, a transport error, a timeout, a body that is no JSON
Counted(n) == [kind |-> "ok", value |-> n]

Raises == {[kind |-> k, value |-> 0] :
              k \in {"http_error", "transport_error", "timeout", "malformed"}}

ReturnsNone == [kind |-> "null", value |-> 0]

\* method 1 reports total_count, whatever it is
Method1Outcomes  == {Counted(n) : n \in LoadValues} \cup Raises \cup {ReturnsNone}

\* methods 2 and 3 count the issues of one page fetched with limit 100
Method23Outcomes == {Counted(n) : n \in LoadValues \ {Sentinel}} \cup Raises

\* test_workloads of get_user_workload, with .get(user_id, 0)
test_workloads(user_id) ==
    CASE user_id = 1239 -> 1 [] user_id = 1330 -> 3 [] user_id = 1329 -> 0
      [] user_id = 1328 -> 4 [] user_id = 1327 -> 2 [] user_id = 1155 -> 1
      [] user_id = 1795 -> 3 [] user_id = 21 -> 5   [] user_id = 155 -> 3
      [] user_id = 11 -> 2   [] user_id = 10 -> 4   [] OTHER -> 0

\* the first method, in the order of `methods`, that returned a count; 0 when
\* none did
FirstCounted(outcomes) ==
    LET hits == {i \in 1..Len(outcomes) : outcomes[i].kind = "ok"}
    IN  IF hits = {} THEN 0 ELSE CHOOSE i \in hits : \A j \in hits : i <= j

\* the loop taking the last method that returned a count
get_user_workload_LastWins(test_mode, user_id, outcomes) ==
    LET hits == {i \in 1..Len(outcomes) : outcomes[i].kind = "ok"}
        last == CHOOSE i \in hits : \A j \in hits : j <= i
    IN  IF test_mode
        THEN [result |-> test_workloads(user_id), tried |-> 0, raised |-> FALSE]
        ELSE IF hits = {}
             THEN [result |-> Sentinel, tried |-> Len(outcomes), raised |-> FALSE]
             ELSE [result |-> outcomes[last].value, tried |-> Len(outcomes),
                   raised |-> FALSE]

\* the try/except of lines 155-162 left out: the exception of the first
\* method that raises leaves get_user_workload
get_user_workload_Propagates(test_mode, user_id, outcomes) ==
    LET ends == {i \in 1..Len(outcomes) : outcomes[i].kind # "null"}
        stop == CHOOSE i \in ends : \A j \in ends : i <= j
    IN  IF test_mode
        THEN [result |-> test_workloads(user_id), tried |-> 0, raised |-> FALSE]
        ELSE IF ends = {}
             THEN [result |-> Sentinel, tried |-> Len(outcomes), raised |-> FALSE]
             ELSE IF outcomes[stop].kind = "ok"
                  THEN [result |-> outcomes[stop].value, tried |-> stop,
                        raised |-> FALSE]
                  ELSE [result |-> -1, tried |-> stop, raised |-> TRUE]

\* get_user_workload(user_id), `outcomes` being what the three methods do
\* when called; `tried` is how many of them were called, `raised` whether an
\* exception left the call (the handler of line 160 takes every Exception)
get_user_workload(test_mode, user_id, outcomes) ==
    LET first == FirstCounted(outcomes)
    IN  IF test_mode
        THEN [result |-> test_workloads(user_id), tried |-> 0, raised |-> FALSE]
        ELSE IF first = 0
             THEN [result |-> Sentinel, tried |-> Len(outcomes), raised |-> FALSE]
             ELSE [result |-> outcomes[first].value, tried |-> first,
                   raised |-> FALSE]

\* user ids get_user_workload is called with: members of both teams and an
\* id of neither
ProbedUsers == {1239, 21, 155, 7}

InitProbe ==
    /\ TEST_MODE \in BOOLEAN
    /\ L1_MEMBERS = <<>>
    /\ L2_MEMBERS = <<>>
    /\ ticket = Nil
    /\ arb = Nil
    /\ probe = Nil
    /\ route = Nil
    /\ gen = Nil
    /\ redmine = Nil
    /\ runs = Nil
    /\ run = Nil
    /\ store = Nil
    /\ assign = Nil

ProbeWorkload ==
    /\ probe = Nil
    /\ \E user_id \in ProbedUsers :
       \E m1 \in Method1Outcomes, m2 \in Method23Outcomes, m3 \in Method23Outcomes :
          LET outcomes == <<m1, m2, m3>>
              got      == get_user_workload(TEST_MODE, user_id, outcomes)
          IN  probe' = [user_id  |-> user_id,
                        outcomes |-> SubSeq(outcomes, 1, got.tried),
                        result   |-> got.result,
                        raised   |-> got.raised]
    /\ UNCHANGED <<TEST_MODE, L1_MEMBERS, L2_MEMBERS, ticket, arb, route, gen, run,
                 store, assign, redmine, runs>>

NextProbe == ProbeWorkload

SpecProbe == InitProbe /\ [][NextProbe]_vars

-----------------------------------------------------------------------------
(* Claims C4 and C17: get_user_workload *)

\* every method that was called failed: it raised or it returned None
AllMethodsFailed(p) ==
    /\ Len(p.outcomes) = 3
    /\ \A i \in 1..3 : p.outcomes[i].kind # "ok"

\* the last method called returned a count and every one before it failed
FirstSuccessAnswered(p) ==
    /\ Len(p.outcomes) >= 1
    /\ p.outcomes[Len(p.outcomes)].kind = "ok"
    /\ \A i \in 1..(Len(p.outcomes) - 1) : p.outcomes[i].kind # "ok"
    /\ p.result = p.outcomes[Len(p.outcomes)].value
    /\ p.result >= 0

\* C4 as claimed: the probe returns 999 if and only if all three methods
\* fail; otherwise it returns the count of the first method that succeeds
\* and calls no later one.
C4_SentinelIffAllFail ==
    (probe # Nil /\ ~TEST_MODE)
        => /\ (probe.result = Sentinel) <=> AllMethodsFailed(probe)
           /\ ~AllMethodsFailed(probe) => FirstSuccessAnswered(probe)

\* C4 as amended: the probe returns 999 whenever all three methods fail;
\* whenever one succeeds it returns the count of the first that does and calls
\* no later one, so that 999 is returned only when all failed or when that
\* first count is itself 999.
C4_SentinelWhenAllFail ==
    (probe # Nil /\ ~TEST_MODE)
        => /\ AllMethodsFailed(probe) => probe.result = Sentinel
           /\ ~AllMethodsFailed(probe) => FirstSuccessAnswered(probe)
           /\ probe.result = Sentinel =>
                 \/ AllMethodsFailed(probe)
                 \/ probe.outcomes[Len(probe.outcomes)] = Counted(Sentinel)

\* method 1 raised, method 2 returned a count below the sentinel, and that
\* count came back without method 3 being called
C4_Witness ==
    /\ probe # Nil
    /\ ~TEST_MODE
    /\ Len(probe.outcomes) = 2
    /\ probe.outcomes[1].kind = "timeout"
    /\ probe.outcomes[2] = Counted(MaxTickets)
    /\ probe.result = MaxTickets

\* C17: get_user_workload never raises past its own boundary: whatever each
\* method does (a count, a status other than 200, a transport error, a
\* timeout, a malformed response, a null total_count), the call returns a
\* non-negative integer to its caller, in and out of test mode.
C17_ProbeNeverRaises ==
    probe # Nil
        => /\ probe.raised = FALSE
           /\ probe.result \in Nat

\* the three methods failed in three different ways and the call returned
\* the sentinel
C17_Witness ==
    /\ probe # Nil
    /\ ~TEST_MODE
    /\ Len(probe.outcomes) = 3
    /\ probe.outcomes[1].kind = "http_error"
    /\ probe.outcomes[2].kind = "malformed"
    /\ probe.outcomes[3].kind = "transport_error"
    /\ probe.raised = FALSE
    /\ probe.result = Sentinel

-----------------------------------------------------------------------------
(* Team rosters: Config.L1_MEMBERS and Config.L2_MEMBERS *)

\* longest Tier1 and Tier2 roster the router is run with
MaxL1 == 2

MaxL2 == 2

L1Member(user_id, name) ==
    [user_id |-> user_id, name |-> name, max_tickets |-> MaxTickets]

L2Member(user_id, name) == [user_id |-> user_id, name |-> name]

\* Config.L1_MEMBERS as src/config.py lists it
ConfiguredL1 ==
    << L1Member(1239, "Shashikiran Umakanth"),
       L1Member(1330, "Jon Joseph"),
       L1Member(1329, "Lakshmi A B"),
       L1Member(1328, "Musab Acharath"),
       L1Member(1327, "Afsana ashraf"),
       L1Member(1155, "Sreehari Padmakumar"),
       L1Member(1795, "Joel Mathew") >>

\* Config.L2_MEMBERS as src/config.py lists it
ConfiguredL2 ==
    << L2Member(21, "Arun Ramdas"),
       L2Member(155, "Manoja Ningaraja"),
       L2Member(11, "Jerish Vijay"),
       L2Member(10, "Angel Varghese") >>

Smaller(a, b) == IF a <= b THEN a ELSE b

\* max_tickets is a number the deployment configures: the 5 of src/config.py
\* and a capacity above the sentinel
Capacities == {MaxTickets, Sentinel + 1}

WithCapacity(members, c) ==
    [i \in 1..Len(members) |-> [members[i] EXCEPT !.max_tickets = c]]

\* the rosters a deployment may configure: the configured lists cut to their
\* first members, the empty list included
L1Rosters ==
    {WithCapacity(SubSeq(ConfiguredL1, 1, n), c) :
        n \in 0..Smaller(MaxL1, Len(ConfiguredL1)), c \in Capacities}

L2Rosters ==
    {SubSeq(ConfiguredL2, 1, n) : n \in 0..Smaller(MaxL2, Len(ConfiguredL2))}

-----------------------------------------------------------------------------
(* find_best_assignee *)

\* what the three workload methods do at one get_user_workload call of the
\* router: the first method reports a count below the sentinel, or all three
\* time out. In test mode no method is called.
ProbeAnswers(test_mode) ==
    IF test_mode THEN {<<>>}
    ELSE {<<Counted(n)>> : n \in LoadValues \ {Sentinel}}
         \cup {<<[kind |-> "timeout", value |-> 0],
                 [kind |-> "timeout", value |-> 0],
                 [kind |-> "timeout", value |-> 0]>>}

\* self.get_user_workload(m['user_id']) for every member of a roster, in order
LoadsOf(test_mode, members, answers) ==
    [i \in 1..Len(members) |->
        get_user_workload(test_mode, members[i].user_id, answers[i]).result]

UserIds(members) == [i \in 1..Len(members) |-> members[i].user_id]

\* max() taken for min()
FirstLeast_Greatest(loads, among) ==
    CHOOSE i \in among :
        \A j \in among : loads[i] > loads[j] \/ (loads[i] = loads[j] /\ i <= j)

\* the last of the smallest loads taken for the first
FirstLeast_LastTie(loads, among) ==
    CHOOSE i \in among :
        \A j \in among : loads[i] < loads[j] \/ (loads[i] = loads[j] /\ j <= i)

\* min(..., key=...) over positions 1..Len(loads) kept in `among`: the first
\* position of the smallest load
FirstLeast(loads, among) ==
    CHOOSE i \in among :
        \A j \in among : loads[i] < loads[j] \/ (loads[i] = loads[j] /\ i <= j)

NoMember == [user_id |-> 0, name |-> ""]

Deferred ==
    [kind |-> "none", member |-> NoMember, assignment_type |-> "",
     reason |-> "", reason_load |-> 0, l1_loads |-> <<>>, l2_loads |-> <<>>,
     probed |-> <<>>]

\* the `try: best_l2 = min(self.config.L2_MEMBERS, key=...)` blocks of lines
\* 226-238 and 259-271. On an empty roster min() raises ValueError, the
\* handler evaluates self.config.L2_MEMBERS[0] and that raises IndexError,
\* which leaves find_best_assignee. get_user_workload raises nothing, so the
\* handler is entered in no other way.
LeastLoadedL2(test_mode, L2, l2_answers, reload_answer, assignment_type, reason, l1_loads, probed_before) ==
    IF L2 = <<>>
    THEN [kind |-> "raised", member |-> NoMember, assignment_type |-> "",
          reason |-> "IndexError", reason_load |-> 0, l1_loads |-> l1_loads,
          l2_loads |-> <<>>, probed |-> probed_before]
    ELSE LET l2_loads == LoadsOf(test_mode, L2, l2_answers)
             best     == FirstLeast(l2_loads, 1..Len(L2))
             workload == get_user_workload(test_mode, L2[best].user_id,
                                           reload_answer).result
         IN  [kind |-> "assigned", member |-> L2[best],
              assignment_type |-> assignment_type,
              reason |-> reason, reason_load |-> workload,
              l1_loads |-> l1_loads, l2_loads |-> l2_loads,
              probed |-> probed_before \o UserIds(L2) \o <<L2[best].user_id>>]

\* `current_load <= member['max_tickets']` written for `<`
HasCapacity_OrEqual(member, current_load) == current_load <= member.max_tickets

\* current_load < member['max_tickets']
HasCapacity(member, current_load) == current_load < member.max_tickets

\* outside business hours the placeholder assignee returned for None
find_best_assignee_NeverDefers(test_mode, L1, L2, adjusted_priority, is_business_hours, l1_answers, l2_answers, reload_answer) ==
    IF adjusted_priority = "P1(Critical)"
    THEN LeastLoadedL2(test_mode, L2, l2_answers, reload_answer, "L2_CRITICAL_PROD",
                  "P1 Critical PRODUCTION issue - L2 team (24/7) - Current load",
                  <<>>, <<>>)
    ELSE IF is_business_hours
    THEN LET l1_loads  == LoadsOf(test_mode, L1, l1_answers)
             available == {i \in 1..Len(L1) : HasCapacity(L1[i], l1_loads[i])}
         IN  IF available # {}
             THEN LET best == FirstLeast(l1_loads, available)
                  IN  [kind |-> "assigned", member |-> L1[best],
                       assignment_type |-> "L1_BUSINESS_HOURS",
                       reason |-> "P2-P5 during business hours - L1 team - Load",
                       reason_load |-> l1_loads[best],
                       l1_loads |-> l1_loads, l2_loads |-> <<>>,
                       probed |-> UserIds(L1)]
             ELSE LeastLoadedL2(test_mode, L2, l2_answers, reload_answer,
                       "L2_L1_OVERLOADED",
                       "L1 team at capacity (5+ tickets each) - Escalated to L2 - Load",
                       l1_loads, UserIds(L1))
    ELSE [kind |-> "assigned", member |-> [user_id |-> 0, name |-> "Pending"],
          assignment_type |-> "OUTSIDE_HOURS",
          reason |-> "Non-critical ticket outside business hours (9AM-9PM IST)",
          reason_load |-> 0, l1_loads |-> <<>>, l2_loads |-> <<>>,
          probed |-> <<>>]

\* find_best_assignee(adjusted_priority, is_business_hours); the answers are
\* what the workload methods do at each get_user_workload call it makes
find_best_assignee(test_mode, L1, L2, adjusted_priority, is_business_hours, l1_answers, l2_answers, reload_answer) ==
    IF adjusted_priority = "P1(Critical)"
    THEN LeastLoadedL2(test_mode, L2, l2_answers, reload_answer, "L2_CRITICAL_PROD",
                  "P1 Critical PRODUCTION issue - L2 team (24/7) - Current load",
                  <<>>, <<>>)
    ELSE IF is_business_hours
    THEN LET l1_loads  == LoadsOf(test_mode, L1, l1_answers)
             available == {i \in 1..Len(L1) : HasCapacity(L1[i], l1_loads[i])}
         IN  IF available # {}
             THEN LET best == FirstLeast(l1_loads, available)
                  IN  [kind |-> "assigned", member |-> L1[best],
                       assignment_type |-> "L1_BUSINESS_HOURS",
                       reason |-> "P2-P5 during business hours - L1 team - Load",
                       reason_load |-> l1_loads[best],
                       l1_loads |-> l1_loads, l2_loads |-> <<>>,
                       probed |-> UserIds(L1)]
             ELSE LeastLoadedL2(test_mode, L2, l2_answers, reload_answer,
                       "L2_L1_OVERLOADED",
                       "L1 team at capacity (5+ tickets each) - Escalated to L2 - Load",
                       l1_loads, UserIds(L1))
    ELSE Deferred

InitRoute ==
    /\ TEST_MODE \in BOOLEAN
    /\ L1_MEMBERS \in L1Rosters
    /\ L2_MEMBERS \in L2Rosters
    /\ ticket = Nil
    /\ arb = Nil
    /\ probe = Nil
    /\ route = Nil
    /\ gen = Nil
    /\ redmine = Nil
    /\ runs = Nil
    /\ run = Nil
    /\ store = Nil
    /\ assign = Nil

\* answers for the get_user_workload calls a decision can make: none where
\* the decision makes no call
AnswersFor(asked, members) ==
    [1..(IF asked THEN Len(members) ELSE 0) -> ProbeAnswers(TEST_MODE)]

FindBestAssignee ==
    /\ route = Nil
    /\ \E adjusted_priority \in PriorityNames, is_business_hours \in BOOLEAN :
         LET asks_l1 == adjusted_priority # "P1(Critical)" /\ is_business_hours
         IN  \E l1_answers \in AnswersFor(asks_l1, L1_MEMBERS) :
               LET l1_loads == LoadsOf(TEST_MODE, L1_MEMBERS, l1_answers)
                   asks_l2  ==
                       \/ adjusted_priority = "P1(Critical)"
                       \/ /\ asks_l1
                          /\ \A i \in 1..Len(L1_MEMBERS) :
                                l1_loads[i] >= L1_MEMBERS[i].max_tickets
               IN  \E l2_answers \in AnswersFor(asks_l2, L2_MEMBERS) :
                   \E reload_answer \in
                        (IF asks_l2 /\ L2_MEMBERS # <<>>
                         THEN ProbeAnswers(TEST_MODE) ELSE {<<>>}) :
                      route' = [adjusted_priority |-> adjusted_priority,
                                is_business_hours |-> is_business_hours,
                                l1_answers        |-> l1_answers,
                                l2_answers        |-> l2_answers,
                                reload_answer     |-> reload_answer,
                                result |-> find_best_assignee(TEST_MODE,
                                    L1_MEMBERS, L2_MEMBERS, adjusted_priority,
                                    is_business_hours, l1_answers, l2_answers,
                                    reload_answer)]
    /\ UNCHANGED <<TEST_MODE, L1_MEMBERS, L2_MEMBERS, ticket, arb, probe, gen, run,
                 store, assign, redmine, runs>>

NextRoute == FindBestAssignee

SpecRoute == InitRoute /\ [][NextRoute]_vars

-----------------------------------------------------------------------------
(* Claims C5 to C9, C16 and C20: find_best_assignee *)

\* the active counts the decision in `route` was given for each team
ProbedL1 == LoadsOf(TEST_MODE, L1_MEMBERS, route.l1_answers)

ProbedL2 == LoadsOf(TEST_MODE, L2_MEMBERS, route.l2_answers)

\* member k of a roster has the least of `loads` among the positions in
\* `among`, and is the first there to have it
LeastInOrder(loads, among, k) ==
    /\ k \in among
    /\ \A j \in among : loads[k] <= loads[j]
    /\ \A j \in among : j < k => loads[j] > loads[k]

\* the decision assigns the Tier2 member that is least loaded, first in
\* configured order among equals
AssignsLeastLoadedL2(r) ==
    /\ r.kind = "assigned"
    /\ \E k \in 1..Len(L2_MEMBERS) :
          /\ r.member = L2_MEMBERS[k]
          /\ LeastInOrder(ProbedL2, 1..Len(L2_MEMBERS), k)

\* C5: with adjusted urgency Critical the router assigns a Tier2 responder
\* and never defers, in and out of operating hours: the Tier2 member with the
\* least probed active count, the first in configured order among equals.
\* (Stated for a Tier2 roster that has a member; the empty roster is C6.)
C5_CriticalAssignsLeastLoadedL2 ==
    (route # Nil /\ route.adjusted_priority = "P1(Critical)" /\ L2_MEMBERS # <<>>)
        => /\ AssignsLeastLoadedL2(route.result)
           /\ route.result.assignment_type = "L2_CRITICAL_PROD"

\* outside operating hours a Critical ticket went to the first of two Tier2
\* members whose probed counts are equal
C5_Witness ==
    /\ route # Nil
    /\ route.adjusted_priority = "P1(Critical)"
    /\ ~route.is_business_hours
    /\ ~TEST_MODE
    /\ Len(L2_MEMBERS) = 2
    /\ ProbedL2 = <<MaxTickets, MaxTickets>>
    /\ route.result.kind = "assigned"
    /\ route.result.member = L2_MEMBERS[1]

\* every workload method timed out at every probe of the Tier2 roster
EveryL2ProbeFailed ==
    /\ ~TEST_MODE
    /\ \A i \in 1..Len(route.l2_answers) :
          /\ Len(route.l2_answers[i]) = 3
          /\ \A m \in 1..3 : route.l2_answers[i][m].kind # "ok"

\* C6: when a Critical ticket is routed and the Tier2 pool is empty or every
\* Tier2 probe fails, the router falls back to the first configured Tier2
\* responder: the decision is an assignment, neither a deferral nor an error.
C6_CriticalFallsBackToFirstL2 ==
    (route # Nil /\ route.adjusted_priority = "P1(Critical)"
                 /\ (L2_MEMBERS = <<>> \/ EveryL2ProbeFailed))
        => /\ route.result.kind = "assigned"
           /\ L2_MEMBERS # <<>> => route.result.member = L2_MEMBERS[1]

\* C7: with adjusted urgency below Critical and outside operating hours the
\* router defers: it returns no responder and probes no workload.
C7_NonCriticalOutsideHoursDeferred ==
    (route # Nil /\ route.adjusted_priority # "P1(Critical)"
                 /\ ~route.is_business_hours)
        => /\ route.result.kind = "none"
           /\ route.result.member = NoMember
           /\ route.result.probed = <<>>

\* a High ticket was deferred outside operating hours though both teams have
\* members
C7_Witness ==
    /\ route # Nil
    /\ route.adjusted_priority = "P2(High)"
    /\ ~route.is_business_hours
    /\ L1_MEMBERS # <<>>
    /\ L2_MEMBERS # <<>>
    /\ route.result.kind = "none"

\* C8: with adjusted urgency below Critical, in operating hours, and every
\* Tier1 responder probed at or above its capacity, the router assigns the
\* least-loaded Tier2 responder (first in configured order among equals) and
\* the rationale says that Tier1 is saturated.
\* (Stated for a Tier2 roster that has a member; the empty roster is C6.)
C8_SaturatedL1EscalatesToL2 ==
    (route # Nil /\ route.adjusted_priority # "P1(Critical)"
                 /\ route.is_business_hours
                 /\ L2_MEMBERS # <<>>
                 /\ \A i \in 1..Len(L1_MEMBERS) :
                       ProbedL1[i] >= L1_MEMBERS[i].max_tickets)
        => /\ AssignsLeastLoadedL2(route.result)
           /\ route.result.assignment_type = "L2_L1_OVERLOADED"
           /\ route.result.reason =
                 "L1 team at capacity (5+ tickets each) - Escalated to L2 - Load"

\* two Tier1 members, one exactly at capacity and one whose probe failed, and
\* a High ticket in operating hours went to the second, less loaded, Tier2
\* member
C8_Witness ==
    /\ route # Nil
    /\ route.adjusted_priority = "P2(High)"
    /\ route.is_business_hours
    /\ ~TEST_MODE
    /\ Len(L1_MEMBERS) = 2
    /\ ProbedL1 = <<MaxTickets, Sentinel>>
    /\ Len(L2_MEMBERS) = 2
    /\ route.result.assignment_type = "L2_L1_OVERLOADED"
    /\ ProbedL2 = <<MaxTickets, 0>>
    /\ route.result.member = L2_MEMBERS[2]

\* the Tier1 members probed strictly below their capacity
FreeL1 == {i \in 1..Len(L1_MEMBERS) : ProbedL1[i] < L1_MEMBERS[i].max_tickets}

\* C9: with adjusted urgency below Critical, in operating hours, and some
\* Tier1 responder probed strictly below its capacity, the router assigns the
\* Tier1 responder of least probed load among exactly those, the first in
\* configured order among equals; one whose load equals its capacity is never
\* chosen.
C9_FreeL1LeastLoadedAssigned ==
    (route # Nil /\ route.adjusted_priority # "P1(Critical)"
                 /\ route.is_business_hours
                 /\ FreeL1 # {})
        => /\ route.result.kind = "assigned"
           /\ route.result.assignment_type = "L1_BUSINESS_HOURS"
           /\ \E k \in FreeL1 :
                 /\ route.result.member = L1_MEMBERS[k]
                 /\ ProbedL1[k] < L1_MEMBERS[k].max_tickets
                 /\ LeastInOrder(ProbedL1, FreeL1, k)

\* the first Tier1 member is exactly at capacity and the ticket went to the
\* second, who is one below it
C9_Witness ==
    /\ route # Nil
    /\ route.adjusted_priority = "P3(Medium)"
    /\ route.is_business_hours
    /\ ~TEST_MODE
    /\ Len(L1_MEMBERS) = 2
    /\ ProbedL1 = <<MaxTickets, MaxTickets - 1>>
    /\ route.result.member = L1_MEMBERS[2]
    /\ route.result.assignment_type = "L1_BUSINESS_HOURS"

\* every workload method failed at the probe answered by `answer`
ProbeFailedOnEveryMethod(answer) ==
    /\ Len(answer) = 3
    /\ \A m \in 1..3 : answer[m].kind # "ok"

\* C16: a Tier1 responder whose workload probe failed on every strategy is
\* never assigned a ticket as a Tier1 responder, whatever positive capacity
\* is configured for it (the sentinel load is never strictly less than the
\* capacity).
C16_UnknownLoadNeverAssignedL1 ==
    (route # Nil /\ ~TEST_MODE
                 /\ route.result.kind = "assigned"
                 /\ route.result.assignment_type = "L1_BUSINESS_HOURS")
        => \A k \in 1..Len(L1_MEMBERS) :
              L1_MEMBERS[k] = route.result.member
                  => ~ProbeFailedOnEveryMethod(route.l1_answers[k])

\* C20: within one decision that selects a Tier2 responder the workload is
\* read as one snapshot: the load reported in the rationale for the chosen
\* responder is the load that responder was selected with.
C20_RationaleLoadIsSelectionLoad ==
    (route # Nil /\ route.result.kind = "assigned"
                 /\ route.result.assignment_type
                        \in {"L2_CRITICAL_PROD", "L2_L1_OVERLOADED"})
        => \A k \in 1..Len(L2_MEMBERS) :
              L2_MEMBERS[k] = route.result.member
                  => route.result.reason_load = route.result.l2_loads[k]

-----------------------------------------------------------------------------
(* _generate_professional_fallback_analysis *)

\* the categories of _generate_professional_fallback_analysis in the order
\* its if/elif chain tests them, each with its keywords and its commands; the
\* last, without keywords, is the else branch
Categories ==
    <<
      [name |-> <<"K", "u", "b", "e", "r", "n", "e", "t", "e", "s", " ", "I", "n", "f", "r", "a", "s", "t", "r", "u", "c", "t", "u", "r", "e">>,
       keywords |->
             {<<"k", "u", "b", "e", "r", "n", "e", "t", "e", "s">>,
              <<"k", "8", "s">>,
              <<"p", "o", "d">>,
              <<"d", "e", "p", "l", "o", "y", "m", "e", "n", "t">>,
              <<"n", "a", "m", "e", "s", "p", "a", "c", "e">>},
       commands |->
            <<"kubectl get pods -n <namespace>",
              "kubectl describe pod <pod_name> -n <namespace>",
              "kubectl logs <pod_name> -n <namespace> --tail=100">>],
      [name |-> <<"R", "a", "b", "b", "i", "t", "M", "Q", " ", "M", "e", "s", "s", "a", "g", "e", " ", "B", "r", "o", "k", "e", "r">>,
       keywords |->
             {<<"r", "a", "b", "b", "i", "t", "m", "q">>,
              <<"r", "a", "b", "b", "i", "t">>,
              <<"m", "q">>,
              <<"q", "u", "e", "u", "e">>,
              <<"m", "e", "s", "s", "a", "g", "e">>},
       commands |->
            <<"kubectl logs <rabbitmq-pod-name> --tail=100",
              "kubectl exec -it <rabbitmq-pod> -- rabbitmqctl status",
              "kubectl exec -it <rabbitmq-pod> -- rabbitmqctl list_queues">>],
      [name |-> <<"R", "e", "d", "i", "s", " ", "C", "a", "c", "h", "e", " ", "S", "e", "r", "v", "i", "c", "e">>,
       keywords |->
             {<<"r", "e", "d", "i", "s">>,
              <<"c", "a", "c", "h", "e">>,
              <<"s", "e", "s", "s", "i", "o", "n">>},
       commands |->
            <<"kubectl logs <redis-pod-name> --tail=100",
              "kubectl exec -it <redis-pod> -- redis-cli ping",
              "kubectl exec -it <redis-pod> -- redis-cli info memory">>],
      [name |-> <<"K", "a", "f", "k", "a", " ", "S", "t", "r", "e", "a", "m", "i", "n", "g", " ", "P", "l", "a", "t", "f", "o", "r", "m">>,
       keywords |->
             {<<"k", "a", "f", "k", "a">>,
              <<"s", "t", "r", "e", "a", "m", "i", "n", "g">>,
              <<"t", "o", "p", "i", "c">>},
       commands |->
            <<"kubectl logs <kafka-pod-name> --tail=100",
              "kubectl exec -it <kafka-pod> -- kafka-topics --list">>],
      [name |-> <<"E", "l", "a", "s", "t", "i", "c", "s", "e", "a", "r", "c", "h", " ", "S", "e", "a", "r", "c", "h", " ", "E", "n", "g", "i", "n", "e">>,
       keywords |->
             {<<"e", "l", "a", "s", "t", "i", "c", "s", "e", "a", "r", "c", "h">>,
              <<"e", "l", "a", "s", "t", "i", "c">>,
              <<"s", "e", "a", "r", "c", "h">>},
       commands |->
            <<"kubectl logs <elasticsearch-pod-name> --tail=100",
              "kubectl exec -it <es-pod> -- curl -X GET 'localhost:9200/_cluster/health'">>],
      [name |-> <<"G", "i", "t", "L", "a", "b", " ", "C", "I", "/", "C", "D", " ", "P", "i", "p", "e", "l", "i", "n", "e">>,
       keywords |->
             {<<"g", "i", "t", "l", "a", "b">>,
              <<"c", "i", "/", "c", "d">>,
              <<"p", "i", "p", "e", "l", "i", "n", "e">>,
              <<"b", "u", "i", "l", "d">>},
       commands |->
            <<"kubectl logs <gitlab-runner-pod> --tail=100",
              "kubectl get pods -l app=gitlab-runner">>],
      [name |-> <<"D", "a", "t", "a", "b", "a", "s", "e", " ", "S", "e", "r", "v", "i", "c", "e">>,
       keywords |->
             {<<"d", "a", "t", "a", "b", "a", "s", "e">>,
              <<"d", "b">>,
              <<"s", "q", "l">>,
              <<"m", "y", "s", "q", "l">>,
              <<"p", "o", "s", "t", "g", "r", "e", "s">>},
       commands |->
            <<"kubectl logs <database-pod-name> --tail=100",
              "kubectl describe pod <database-pod-name>">>],
      [name |-> <<"I", "n", "f", "r", "a", "s", "t", "r", "u", "c", "t", "u", "r", "e", " ", "S", "e", "r", "v", "i", "c", "e">>,
       keywords |->
             {},
       commands |->
            <<"kubectl get pods --all-namespaces",
              "kubectl get events --sort-by=.metadata.creationTimestamp">>] >>

\* ticket.get(key, '') for 'subject' and 'description'
SubjectOf(t) == IF t.has_subject THEN t.subject ELSE <<>>

DescriptionOf(t) == IF t.has_description THEN t.description ELSE <<>>

\* combined_text = subject_lower + ' ' + description_lower
CombinedText(t) == Lower(SubjectOf(t)) \o <<" ">> \o Lower(DescriptionOf(t))

\* any(word in combined_text for word in [...]) for category k
CategoryMatches(k, text) == \E word \in Categories[k].keywords : StrIn(word, text)

\* the chain taking the last category that matches
CategoryOf_LastMatch(t) ==
    LET text == CombinedText(t)
        hits == {k \in 1..(Len(Categories) - 1) : CategoryMatches(k, text)}
    IN  IF hits = {} THEN Len(Categories)
        ELSE CHOOSE k \in hits : \A j \in hits : j <= k

\* the if/elif/else chain of lines 357-414: the first category one of whose
\* keywords occurs in the text, the last category when none does
CategoryOf(t) ==
    LET text == CombinedText(t)
        hits == {k \in 1..(Len(Categories) - 1) : CategoryMatches(k, text)}
    IN  IF hits = {} THEN Len(Categories)
        ELSE CHOOSE k \in hits : \A j \in hits : k <= j

\* env_context of line 416
EnvContext(environment) ==
    IF environment # <<>>
    THEN <<" in the ">> \o Upper(environment) \o <<" environment">>
    ELSE <<>>

\* the parts of the message returned at lines 418-439, in the order of the
\* template; a part is a tuple of pieces of text
FallbackParts(t, environment) ==
    LET category == Categories[CategoryOf(t)]
    IN  [acknowledgment |->
             <<"Thank you for contacting 6D DevOps Support regarding this ">>
             \o Lower(category.name) \o <<" issue">>
             \o EnvContext(environment) \o <<".">>,
         initial_assessment |->
             <<"**Initial Assessment:**", "This appears to be a ">>
             \o category.name
             \o <<" issue that requires additional information for proper diagnosis and resolution.">>,
         information_header |->
             <<"**To assist in resolving this issue efficiently, please provide the following information:**">>,
         information_items |->
             <<"1. **Error Details:** Please provide any error messages, logs, or specific symptoms observed.",
               "2. **Recent Changes:** Were there any recent deployments, configuration changes, or updates?",
               "3. **Issue Description: ">>,
         diagnostic_commands |->
             <<"**Diagnostic Commands:**",
               "Please run the following commands and provide the output:">>
             \o category.commands,
         next_steps |->
             <<"**Next Steps:**",
               "Once we receive this information, our team will perform a comprehensive analysis and provide specific resolution steps. This structured approach ensures efficient problem resolution.",
               "*Note: This response was generated by our automated triage system. Our AI analysis service will provide enhanced diagnostics once connectivity is restored.*">>]

\* _generate_professional_fallback_analysis(ticket, environment, priority)
generate_professional_fallback_analysis(t, environment) ==
    LET parts == FallbackParts(t, environment)
    IN  parts.acknowledgment \o parts.initial_assessment
        \o parts.information_header \o parts.information_items
        \o parts.diagnostic_commands \o parts.next_steps

-----------------------------------------------------------------------------
(* analyze_with_ollama *)

\* what the POST to /api/generate does: it answers 200 with a JSON object
\* whose 'response' is `text`; 200 with an object that has no 'response'; 200
\* with 'response' null; 200 with a body that is no JSON; a status other than
\* 200; it times out; the connection fails
BackendTexts ==
    { <<>>,
      <<" ", " ">>,
      <<"\n">>,
      <<"o", "k">>,
      <<" ", "o", "k", " ", "\n">> }

BackendOutcomes ==
    {[kind |-> "ok", text |-> x] : x \in BackendTexts}
    \cup {[kind |-> k, text |-> <<>>] :
             k \in {"no_response_key", "null_response", "not_json",
                    "http_error", "timeout", "transport_error"}}

\* the text of a reply that lines 329-335 accept; <<>> when there is none:
\* result.get('response', '') is '' without the key, and .strip() on None, a
\* body that is no JSON, a timeout and a connection error all raise into the
\* handlers of lines 342-345
AnalysisOf(backend) ==
    IF backend.kind = "ok" THEN Strip(backend.text) ELSE <<>>

\* .strip() and the `if analysis:` test left out
analyze_with_ollama_Unchecked(t, environment, priority, backend) ==
    IF t.has_subject /\ backend.kind = "ok"
    THEN [text |-> backend.text, source |-> "ollama", requested |-> TRUE,
          raised |-> FALSE]
    ELSE [text |-> generate_professional_fallback_analysis(t, environment),
          source |-> "fallback", requested |-> t.has_subject, raised |-> FALSE]

\* analyze_with_ollama(ticket, environment, priority). Building the prompt
\* reads ticket['subject']: without that key a KeyError goes to the handler of
\* line 344 and no request is made. `requested` is whether the POST was made.
analyze_with_ollama(t, environment, priority, backend) ==
    IF t.has_subject /\ AnalysisOf(backend) # <<>>
    THEN [text |-> AnalysisOf(backend), source |-> "ollama", requested |-> TRUE,
          raised |-> FALSE]
    ELSE [text |-> generate_professional_fallback_analysis(t, environment),
          source |-> "fallback", requested |-> t.has_subject, raised |-> FALSE]

SampleSubjects ==
    { <<>>,
      <<"P", "o", "d", " ", "c", "r", "a", "s", "h", " ", "l", "o", "o", "p">>,
      <<"R", "e", "d", "i", "s", " ", "c", "a", "c", "h", "e", " ", "s", "l", "o", "w">>,
      <<"B", "u", "i", "l", "d", " ", "q", "u", "e", "u", "e", " ", "s", "t", "u", "c", "k">>,
      <<"L", "o", "g", "i", "n", " ", "f", "a", "i", "l", "s">>,
      <<"D", "B", " ", "d", "o", "w", "n">>,
      <<"K", "8", "S", " ", "u", "p", "g", "r", "a", "d", "e">> }

SampleDescriptions ==
    { <<>>,
      <<"C", "I", "/", "C", "D", " ", "p", "i", "p", "e", "l", "i", "n", "e", " ", "f", "a", "i", "l", "i", "n", "g", " ", "o", "n", " ", "d", "e", "v">>,
      <<"U", "s", "e", "r", "s", " ", "u", "n", "a", "b", "l", "e", " ", "t", "o", " ", "l", "o", "g", "i", "n">>,
      <<"s", "e", "a", "r", "c", "h", " ", "i", "s", " ", "s", "l", "o", "w", "\n">> }

\* the tickets analyze_with_ollama is called with: 'subject' and
\* 'description' there or not
AnalysisTickets ==
    {[id |-> 1, has_subject |-> TRUE, subject |-> s,
      has_description |-> TRUE, description |-> d] :
        s \in SampleSubjects, d \in SampleDescriptions}
    \cup
    {[id |-> 1, has_subject |-> TRUE, subject |-> s,
      has_description |-> FALSE, description |-> <<>>] : s \in SampleSubjects}
    \cup
    {[id |-> 1, has_subject |-> FALSE, subject |-> <<>>,
      has_description |-> TRUE, description |-> d] : d \in SampleDescriptions}

\* the environment as analyze_priority_and_environment hands it on
AnalysisEnvironments ==
    { <<>>, <<"p", "r", "o", "d">>, <<"d", "e", "v">> }

InitGenerate ==
    /\ TEST_MODE = FALSE
    /\ L1_MEMBERS = <<>>
    /\ L2_MEMBERS = <<>>
    /\ ticket \in AnalysisTickets
    /\ arb = Nil
    /\ probe = Nil
    /\ route = Nil
    /\ gen = Nil
    /\ redmine = Nil
    /\ runs = Nil
    /\ run = Nil
    /\ store = Nil
    /\ assign = Nil

AnalyzeWithOllama ==
    /\ gen = Nil
    /\ \E environment \in AnalysisEnvironments,
          priority \in {"P1(Critical)", "P2(High)"},
          backend \in BackendOutcomes :
          gen' = [environment |-> environment,
                  priority    |-> priority,
                  backend     |-> backend,
                  result      |-> analyze_with_ollama(ticket, environment,
                                                      priority, backend)]
    /\ UNCHANGED <<TEST_MODE, L1_MEMBERS, L2_MEMBERS, ticket, arb, probe, route, run,
                 store, assign, redmine, runs>>

NextGenerate == AnalyzeWithOllama

SpecGenerate == InitGenerate /\ [][NextGenerate]_vars

-----------------------------------------------------------------------------
(* Claim C10: analyze_with_ollama *)

\* text that is not empty: it has a piece, and none of its pieces is empty
NonEmptyText(text) == Len(text) > 0 /\ \A i \in 1..Len(text) : text[i] # ""

-----------------------------------------------------------------------------
(* assign_ticket_in_redmine *)

\* assign_ticket_in_redmine calls made on one issue, one after the other
MaxApplications == 2

\* what self.session.put(url, json=payload) followed by raise_for_status()
\* does: the store applies the request and answers 2xx; it answers with an
\* error status; the connection fails; no answer ever arrives (the call of
\* line 509 gives no timeout, and then it does not return)
PutOutcomes == {"ok", "http_error", "transport_error", "no_answer"}

\* user id of the "DevOps Team" group new tickets are assigned to
DEVOPS_TEAM_GROUP_ID == 6

\* an issue of the Redmine project as get_new_devops_tickets finds it: status
\* New (1), assigned to the team group, no note added yet
NewIssue(ticket_id) ==
    [id |-> ticket_id, assigned_to_id |-> DEVOPS_TEAM_GROUP_ID, status_id |-> 1,
     journals |-> <<>>]

\* assignment_note of lines 487-499: fixed text around the analysis and
\* datetime.now().isoformat()
AssignmentNote(ai_analysis, now) ==
    [header    |-> "DEVOPS TICKET ASSIGNMENT",
     analysis  |-> ai_analysis,
     system    |-> "System: DevOps Automation with AI Analysis",
     timestamp |-> now]

\* payload of lines 501-507
AssignmentPayload(assignee, ai_analysis, now) ==
    [assigned_to_id |-> assignee.user_id,
     status_id      |-> 2,
     notes          |-> AssignmentNote(ai_analysis, now)]

\* PUT /issues/<id>.json applied by the store: the fields of the payload
\* overwrite the issue's, and its `notes` is added to the issue as one more
\* note
RedminePut(issue, payload) ==
    [issue EXCEPT !.assigned_to_id = payload.assigned_to_id,
                  !.status_id      = payload.status_id,
                  !.journals       = Append(@, payload.notes)]

\* assign_ticket_in_redmine(ticket_id, assignee, ai_analysis) called at time
\* `now` on `issue`: whether the call returns, the value it returns, and the
\* issue afterwards
assign_ticket_in_redmine(issue, assignee, ai_analysis, now, outcome) ==
    [returns |-> outcome # "no_answer",
     value   |-> outcome = "ok",
     issue   |-> IF outcome = "ok"
                 THEN RedminePut(issue, AssignmentPayload(assignee, ai_analysis, now))
                 ELSE issue]

\* the arguments the calls are made with
AssignedIssues == {99991, 99992}

Assignees == {ConfiguredL1[1], ConfiguredL2[1], ConfiguredL2[2]}

AnalysisTexts == { <<"o", "k">>, <<"R", "e", "s", "t", "a", "r", "t">> }

InitAssign ==
    /\ TEST_MODE \in BOOLEAN
    /\ L1_MEMBERS = ConfiguredL1
    /\ L2_MEMBERS = ConfiguredL2
    /\ ticket = Nil
    /\ arb = Nil
    /\ probe = Nil
    /\ route = Nil
    /\ gen = Nil
    /\ redmine = Nil
    /\ runs = Nil
    /\ run = Nil
    /\ \E ticket_id \in AssignedIssues, assignee \in Assignees,
          ai_analysis \in AnalysisTexts :
          /\ store = NewIssue(ticket_id)
          /\ assign = [ticket_id |-> ticket_id, assignee |-> assignee,
                       ai_analysis |-> ai_analysis, clock |-> 0,
                       calls |-> <<>>]

\* one more call with the same arguments, once the call before it returned;
\* the clock read by datetime.now() does not go back
AssignTicketInRedmine ==
    /\ assign # Nil
    /\ Len(assign.calls) < MaxApplications
    /\ \A i \in 1..Len(assign.calls) : assign.calls[i].returns
    /\ \E outcome \in PutOutcomes, now \in {assign.clock, assign.clock + 1} :
          LET did == assign_ticket_in_redmine(store, assign.assignee,
                                              assign.ai_analysis, now, outcome)
          IN  /\ store' = did.issue
              /\ assign' = [assign EXCEPT
                    !.clock = now,
                    !.calls = Append(@, [outcome |-> outcome, now |-> now,
                                         returns |-> did.returns,
                                         value   |-> did.value,
                                         issue   |-> did.issue])]
    /\ UNCHANGED <<TEST_MODE, L1_MEMBERS, L2_MEMBERS, ticket, arb, probe, route, gen,
                 run, redmine, runs>>

NextAssign == AssignTicketInRedmine

SpecAssign == InitAssign /\ [][NextAssign]_vars

-----------------------------------------------------------------------------
(* Claim C14: assign_ticket_in_redmine *)

\* C14: applying the assignment of a ticket twice with identical arguments
\* (same ticket, responder, analysis text, new status) leaves the ticket store
\* in the same persisted end state as applying it once.
C14_AssignTwiceSameAsOnce ==
    (assign # Nil /\ Len(assign.calls) >= 2
                  /\ assign.calls[1].value /\ assign.calls[2].value)
        => store = assign.calls[1].issue

\* what does hold: the assignee and the status of the issue after the second
\* application are those after the first
C14_FieldsOverwritten ==
    (assign # Nil /\ Len(assign.calls) >= 2
                  /\ assign.calls[1].value /\ assign.calls[2].value)
        => /\ store.assigned_to_id = assign.calls[1].issue.assigned_to_id
           /\ store.status_id = assign.calls[1].issue.status_id

-----------------------------------------------------------------------------
(* get_new_devops_tickets *)

\* most tickets one fetch returns
MaxBatch == 2

\* a ticket dict as the pipeline reads it
Ticket(id, priority_name, jira_id, tag, has_subject, subject, description) ==
    [id |-> id,
     priority |-> [name |-> priority_name, id |-> PRIORITY_IDS(priority_name)],
     has_custom_fields |-> TRUE,
     custom_fields |-> <<CustomField(JiraField, TRUE, jira_id),
                         CustomField(EnvField, TRUE, tag)>>,
     has_subject |-> has_subject, subject |-> subject,
     has_description |-> TRUE, description |-> description]

\* the two tickets get_new_devops_tickets returns in test mode
SimulatedTickets ==
    << Ticket(99991, "P1(Critical)",
              <<"A", "U", "T", "H", "-", "S", "E", "R", "V", "I", "C", "E">>,
              <<"p", "r", "o", "d">>, TRUE,
              <<"P", "r", "o", "d", "u", "c", "t", "i", "o", "n", " ", "d", "a", "t", "a", "b", "a", "s", "e", " ", "c", "o", "n", "n", "e", "c", "t", "i", "o", "n", " ", "t", "i", "m", "e", "o", "u", "t">>,
              <<"U", "s", "e", "r", "s", " ", "u", "n", "a", "b", "l", "e", " ", "t", "o", " ", "l", "o", "g", "i", "n", " ", "-", " ", "p", "r", "o", "d", "u", "c", "t", "i", "o", "n", " ", "d", "a", "t", "a", "b", "a", "s", "e", " ", "s", "h", "o", "w", "i", "n", "g", " ", "c", "o", "n", "n", "e", "c", "t", "i", "o", "n", " ", "t", "i", "m", "e", "o", "u", "t", "s">>),
       Ticket(99992, "P1(Critical)",
              <<"P", "A", "Y", "M", "E", "N", "T", "-", "S", "E", "R", "V", "I", "C", "E">>,
              <<"d", "e", "v">>, TRUE,
              <<"D", "e", "v", "e", "l", "o", "p", "m", "e", "n", "t", " ", "e", "n", "v", "i", "r", "o", "n", "m", "e", "n", "t", " ", "d", "e", "p", "l", "o", "y", "m", "e", "n", "t", " ", "f", "a", "i", "l", "i", "n", "g">>,
              <<"C", "I", "/", "C", "D", " ", "p", "i", "p", "e", "l", "i", "n", "e", " ", "f", "a", "i", "l", "i", "n", "g", " ", "o", "n", " ", "d", "e", "v", " ", "e", "n", "v", "i", "r", "o", "n", "m", "e", "n", "t", " ", "-", " ", "n", "e", "e", "d", " ", "a", "s", "s", "i", "s", "t", "a", "n", "c", "e">>) >>

\* tickets the issues query of lines 75-86 can find: a Critical ticket of
\* production, a Critical ticket of a development environment, and a ticket
\* whose dict has no 'subject'
LiveTickets ==
    { Ticket(101, "P1(Critical)", <<"A">>, <<"P", "r", "o", "d", " ">>, TRUE,
             <<"D", "B", " ", "d", "o", "w", "n">>, <<>>),
      Ticket(102, "P1(Critical)", <<"A">>, <<"s", "t", "a", "g", "i", "n", "g">>, TRUE,
             <<"R", "e", "d", "i", "s", " ", "c", "a", "c", "h", "e", " ", "s", "l", "o", "w">>,
             <<>>),
      Ticket(103, "P3(Medium)", <<"A">>, <<"d", "e", "v">>, FALSE, <<>>, <<>>) }

\* the lists of issues one query answers with: no issue listed twice
Batches ==
    {b \in UNION {[1..n -> LiveTickets] : n \in 0..MaxBatch} :
        \A i, j \in 1..Len(b) : i # j => b[i].id # b[j].id}

\* what the GET of line 83 does: it answers 200 with a list of issues, or it
\* fails (a status other than 200, a timeout, a connection error, a body that
\* is no JSON)
FetchOutcomes ==
    {[kind |-> "ok", issues |-> b] : b \in Batches}
    \cup {[kind |-> k, issues |-> <<>>] :
             k \in {"http_error", "timeout", "transport_error", "not_json"}}

\* get_new_devops_tickets(): the simulated tickets in test mode, else the
\* issues of the answer, and [] when the request failed (lines 91-93).
\* `requested` is whether the GET was made
get_new_devops_tickets(test_mode, fetched) ==
    IF test_mode THEN [tickets |-> SimulatedTickets, requested |-> FALSE]
    ELSE [tickets |-> fetched.issues, requested |-> TRUE]

-----------------------------------------------------------------------------
(* add_priority_downgrade_note *)

\* add_priority_downgrade_note(ticket_id, environment, new_priority_id): the
\* PUT of line 472 is made without a timeout; every exception of it is taken
\* by the handler of line 478 and the call returns False
add_priority_downgrade_note(outcome) ==
    [returns |-> outcome # "no_answer", value |-> outcome = "ok"]

-----------------------------------------------------------------------------
(* process_tickets *)

\* the requests a run makes, and whether the call that makes them gives a
\* timeout: lines 83, 177, 192, 211 and 327 do, lines 472 and 509 do not
TimeoutGiven(op) == op \in {"get_issues", "get_workload", "post_generate"}

Call(op, outcome) == [op |-> op, outcome |-> outcome, timeout |-> TimeoutGiven(op)]

\* `successful` of line 612 reported as total_processed
Summary_CountsSuccessful(success, processed_tickets, priority_adjustments, ollama_analyses, errors) ==
    [success              |-> success,
     processed_tickets    |-> processed_tickets,
     total_processed      |->
         Cardinality({p \in 1..Len(processed_tickets) : processed_tickets[p].success}),
     priority_adjustments |-> priority_adjustments,
     ollama_analyses      |-> ollama_analyses,
     errors               |-> errors]

\* AutomationResponse
Summary(success, processed_tickets, priority_adjustments, ollama_analyses, errors) ==
    [success              |-> success,
     processed_tickets    |-> processed_tickets,
     total_processed      |-> Len(processed_tickets),
     priority_adjustments |-> priority_adjustments,
     ollama_analyses      |-> ollama_analyses,
     errors               |-> errors]

\* one entry of `errors`; the entry of lines 534-538 names no ticket
ErrorString(ticket_id, message) == [ticket_id |-> ticket_id, message |-> message]

\* the locals of process_tickets at its first line. pc is the call the run
\* makes next; calls are the requests made for the ticket at hand, store_ops
\* the kinds of request that went to the Redmine ticket store since the run
\* began ("get_issues", "get_workload", "put_note", "put_assign")
NewRun ==
    [pc |-> "fetch", fetched |-> "", tickets |-> <<>>, is_business_hours |-> FALSE,
     i |-> 1, cur |-> Nil, calls |-> <<>>, store_ops |-> {},
     processed_tickets |-> <<>>, errors |-> <<>>,
     priority_adjustments |-> 0, ollama_analyses |-> 0, summary |-> Nil]

\* lines 531-538: the fetch, and the return on an empty list
Fetched(r, test_mode, fetched) ==
    LET got  == get_new_devops_tickets(test_mode, fetched)
        base == [r EXCEPT !.fetched = fetched.kind,
                          !.store_ops = IF got.requested
                                        THEN @ \cup {"get_issues"} ELSE @]
    IN  IF got.tickets = <<>>
        THEN [base EXCEPT !.pc = "done",
                          !.summary = Summary(TRUE, <<>>, 0, 0,
                              <<ErrorString(0, "No new tickets found")>>)]
        ELSE [base EXCEPT !.pc = "hours", !.tickets = got.tickets]

\* the handler of lines 627-635 taken for that of lines 606-609: the
\* exception of a ticket ends the run
OnTicketException_Aborts(r, t, message) ==
    [r EXCEPT !.pc = "done", !.cur = Nil,
              !.summary = Summary(FALSE, r.processed_tickets,
                              r.priority_adjustments, r.ollama_analyses,
                              <<ErrorString(0, message)>> \o r.errors)]

\* lines 606-609: the exception of a ticket becomes one entry of `errors`
\* and the loop goes on with the next ticket
OnTicketException(r, t, message) ==
    [r EXCEPT !.errors = Append(@, ErrorString(t.id, message)),
              !.i = @ + 1, !.pc = "ticket", !.cur = Nil]

\* lines 546-553 for ticket t: ticket['subject'] of line 546 raises KeyError
\* on a dict without it; else the priority is analysed and a downgrade counted
BeginTicket(r, t) ==
    IF ~t.has_subject
    THEN OnTicketException([r EXCEPT !.calls = <<>>], t, "KeyError: 'subject'")
    ELSE LET a == analyze_priority_and_environment(t)
         IN  [r EXCEPT !.calls = <<>>,
                       !.cur = [arb |-> a, decision |-> Nil, analysis |-> Nil],
                       !.priority_adjustments =
                           IF a.was_downgraded THEN @ + 1 ELSE @,
                       !.pc = IF a.was_downgraded THEN "note" ELSE "route"]

\* a note that was not written raising into the handler of the ticket
NoteRequested_Blocks(r, t, outcome) ==
    LET note == add_priority_downgrade_note(outcome)
        base == [r EXCEPT !.calls = Append(@, Call("put_note", outcome)),
                          !.store_ops = @ \cup {"put_note"}]
    IN  IF ~note.returns THEN [base EXCEPT !.pc = "hung"]
        ELSE IF ~note.value THEN OnTicketException(base, t, "note not written")
        ELSE [base EXCEPT !.pc = "route"]

\* line 555: the note is requested and what the call returns is not read
NoteRequested(r, t, outcome) ==
    LET note == add_priority_downgrade_note(outcome)
        base == [r EXCEPT !.calls = Append(@, Call("put_note", outcome)),
                          !.store_ops = @ \cup {"put_note"}]
    IN  IF ~note.returns THEN [base EXCEPT !.pc = "hung"]
        ELSE [base EXCEPT !.pc = "route"]

\* ProcessedTicket of lines 563-573. TicketAssignment.max_tickets is None
\* there, written 0 (a capacity is positive)
PendingTicket(t, a) ==
    [ticket_id |-> t.id, subject |-> t.subject,
     original_priority |-> a.original_priority,
     adjusted_priority |-> a.adjusted_priority,
     environment |-> a.environment, priority_downgraded |-> a.was_downgraded,
     assigned_to |-> [user_id |-> 0, name |-> "Pending", max_tickets |-> 0],
     assignment_type |-> "OUTSIDE_HOURS",
     reason |-> "Non-critical ticket outside business hours (9AM-9PM IST)",
     reason_load |-> 0,
     ai_analysis |-> <<"Waiting for business hours">>,
     ai_analysis_short |-> "Pending business hours",
     success |-> TRUE, error |-> ""]

\* assignee.get('max_tickets'), None written 0
MaxTicketsOf(member) ==
    IF "max_tickets" \in DOMAIN member THEN member.max_tickets ELSE 0

\* ProcessedTicket of lines 585-598
AssignedTicket(t, a, decision, ai_analysis, assignment_success) ==
    [ticket_id |-> t.id, subject |-> t.subject,
     original_priority |-> a.original_priority,
     adjusted_priority |-> a.adjusted_priority,
     environment |-> a.environment, priority_downgraded |-> a.was_downgraded,
     assigned_to |-> [user_id |-> decision.member.user_id,
                      name |-> decision.member.name,
                      max_tickets |-> MaxTicketsOf(decision.member)],
     assignment_type |-> decision.assignment_type,
     reason |-> decision.reason, reason_load |-> decision.reason_load,
     ai_analysis |-> ai_analysis,
     ai_analysis_short |-> "AI analysis with SPOC assignment",
     success |-> assignment_success,
     error |-> IF assignment_success THEN "" ELSE "Failed to assign in Redmine"]

\* the requests of the get_user_workload calls of a decision: none in test
\* mode, where the call answers from test_workloads
ProbeCalls(test_mode, decision) ==
    IF test_mode THEN <<>>
    ELSE [k \in 1..Len(decision.probed) |-> Call("get_workload", "answered")]

\* the `continue` of line 574 left out: the run goes on to the analysis and
\* the assignment with the placeholder
Routed_NoContinue(r, t, test_mode, decision) ==
    LET probes == ProbeCalls(test_mode, decision)
        base   == [r EXCEPT !.calls = Append(@, Call("find_best_assignee", decision.kind))
                                \o probes,
                            !.store_ops = IF probes # <<>>
                                          THEN @ \cup {"get_workload"} ELSE @]
    IN  IF decision.kind = "raised"
        THEN OnTicketException(base, t, "IndexError: list index out of range")
        ELSE IF decision.kind = "none"
        THEN [base EXCEPT !.processed_tickets = Append(@, PendingTicket(t, r.cur.arb)),
                          !.cur.decision =
                              [decision EXCEPT !.member =
                                  [user_id |-> 0, name |-> "Pending"]],
                          !.pc = "generate"]
        ELSE [base EXCEPT !.cur.decision = decision, !.pc = "generate"]

\* lines 557-574: the decision of find_best_assignee. An exception of it goes
\* to the handler of the ticket; on None the placeholder result is recorded
\* and the loop continues with the next ticket
Routed(r, t, test_mode, decision) ==
    LET probes == ProbeCalls(test_mode, decision)
        base   == [r EXCEPT !.calls = Append(@, Call("find_best_assignee", decision.kind))
                                \o probes,
                            !.store_ops = IF probes # <<>>
                                          THEN @ \cup {"get_workload"} ELSE @]
    IN  IF decision.kind = "raised"
        THEN OnTicketException(base, t, "IndexError: list index out of range")
        ELSE IF decision.kind = "none"
        THEN [base EXCEPT !.processed_tickets = Append(@, PendingTicket(t, r.cur.arb)),
                          !.i = @ + 1, !.pc = "ticket", !.cur = Nil]
        ELSE [base EXCEPT !.cur.decision = decision, !.pc = "generate"]

\* lines 576-579: the analysis, counted whatever its source
Generated(r, g) ==
    [r EXCEPT !.calls = IF g.requested
                        THEN Append(@, Call("post_generate", g.source)) ELSE @,
              !.cur.analysis = g.text,
              !.ollama_analyses = @ + 1,
              !.pc = "assign"]

\* lines 581-598: the assignment write and the result of the ticket
AssignRequested(r, t, did, outcome) ==
    LET base == [r EXCEPT !.calls = Append(@, Call("put_assign", outcome)),
                          !.store_ops = @ \cup {"put_assign"}]
    IN  IF ~did.returns THEN [base EXCEPT !.pc = "hung"]
        ELSE [base EXCEPT
                !.processed_tickets =
                    Append(@, AssignedTicket(t, r.cur.arb, r.cur.decision,
                                             r.cur.analysis, did.value)),
                !.i = @ + 1, !.pc = "ticket", !.cur = Nil]

\* lines 611-625
Summarized(r) ==
    [r EXCEPT !.pc = "done",
              !.summary = Summary(TRUE, r.processed_tickets, r.priority_adjustments,
                                  r.ollama_analyses, r.errors)]

\* the rosters the runs are made with: the first Tier1 member, and a Tier2
\* roster that is empty or has its first member
RunL1Rosters == {SubSeq(ConfiguredL1, 1, 1)}

RunL2Rosters == {<<>>, SubSeq(ConfiguredL2, 1, 1)}

\* what the workload methods do at one get_user_workload call of a run: the
\* first method counts no ticket, or all three time out
RunProbeAnswers(test_mode) ==
    IF test_mode THEN {<<>>}
    ELSE {<<Counted(0)>>,
          <<[kind |-> "timeout", value |-> 0], [kind |-> "timeout", value |-> 0],
            [kind |-> "timeout", value |-> 0]>>}

\* what the generation backend does at the request of a run
RunBackendOutcomes ==
    {[kind |-> "ok", text |-> <<"o", "k">>],
     [kind |-> "ok", text |-> <<" ", " ">>],
     [kind |-> "timeout", text |-> <<>>]}

Init ==
    /\ TEST_MODE \in BOOLEAN
    /\ L1_MEMBERS \in RunL1Rosters
    /\ L2_MEMBERS \in RunL2Rosters
    /\ ticket = Nil
    /\ arb = Nil
    /\ probe = Nil
    /\ route = Nil
    /\ gen = Nil
    /\ redmine = Nil
    /\ runs = Nil
    /\ store = Nil
    /\ assign = Nil
    /\ run = NewRun

RunUnchanged ==
    UNCHANGED <<TEST_MODE, L1_MEMBERS, L2_MEMBERS, ticket, arb, probe, route, gen,
                store, assign, redmine, runs>>

\* line 531
FetchTickets ==
    /\ run # Nil
    /\ run.pc = "fetch"
    /\ \E fetched \in (IF TEST_MODE THEN {[kind |-> "simulated", issues |-> <<>>]}
                       ELSE FetchOutcomes) :
          run' = Fetched(run, TEST_MODE, fetched)
    /\ RunUnchanged

\* line 541: the hour of the clock is within the configured hours or not
IsBusinessHours ==
    /\ run # Nil
    /\ run.pc = "hours"
    /\ \E b \in BOOLEAN : run' = [run EXCEPT !.is_business_hours = b, !.pc = "ticket"]
    /\ RunUnchanged

\* lines 544-553 for the next ticket of the list
StartTicket ==
    /\ run # Nil
    /\ run.pc = "ticket"
    /\ run.i <= Len(run.tickets)
    /\ run' = BeginTicket(run, run.tickets[run.i])
    /\ RunUnchanged

\* line 555
AddPriorityDowngradeNote ==
    /\ run # Nil
    /\ run.pc = "note"
    /\ \E outcome \in PutOutcomes :
          run' = NoteRequested(run, run.tickets[run.i], outcome)
    /\ RunUnchanged

\* lines 557-574
RouteTicket ==
    /\ run # Nil
    /\ run.pc = "route"
    /\ LET adjusted_priority == run.cur.arb.adjusted_priority
           asks_l1 == adjusted_priority # "P1(Critical)" /\ run.is_business_hours
       IN  \E l1_answers \in [1..(IF asks_l1 THEN Len(L1_MEMBERS) ELSE 0)
                                -> RunProbeAnswers(TEST_MODE)] :
             LET l1_loads == LoadsOf(TEST_MODE, L1_MEMBERS, l1_answers)
                 asks_l2  ==
                     \/ adjusted_priority = "P1(Critical)"
                     \/ /\ asks_l1
                        /\ \A k \in 1..Len(L1_MEMBERS) :
                              ~HasCapacity(L1_MEMBERS[k], l1_loads[k])
             IN  \E l2_answers \in [1..(IF asks_l2 THEN Len(L2_MEMBERS) ELSE 0)
                                      -> RunProbeAnswers(TEST_MODE)] :
                 \E reload_answer \in (IF asks_l2 /\ L2_MEMBERS # <<>>
                                       THEN RunProbeAnswers(TEST_MODE) ELSE {<<>>}) :
                    run' = Routed(run, run.tickets[run.i], TEST_MODE,
                               find_best_assignee(TEST_MODE, L1_MEMBERS, L2_MEMBERS,
                                   adjusted_priority, run.is_business_hours,
                                   l1_answers, l2_answers, reload_answer))
    /\ RunUnchanged

\* lines 576-579
GenerateAnalysis ==
    /\ run # Nil
    /\ run.pc = "generate"
    /\ \E backend \in RunBackendOutcomes :
          run' = Generated(run, analyze_with_ollama(run.tickets[run.i],
                                   run.cur.arb.environment,
                                   run.cur.arb.adjusted_priority, backend))
    /\ RunUnchanged

\* lines 581-598
AssignTicket ==
    /\ run # Nil
    /\ run.pc = "assign"
    /\ \E outcome \in PutOutcomes :
          LET t == run.tickets[run.i]
          IN  run' = AssignRequested(run, t,
                         assign_ticket_in_redmine(NewIssue(t.id),
                             run.cur.decision.member, run.cur.analysis, 0, outcome),
                         outcome)
    /\ RunUnchanged

\* lines 611-625, after the last ticket
Summarize ==
    /\ run # Nil
    /\ run.pc = "ticket"
    /\ run.i > Len(run.tickets)
    /\ run' = Summarized(run)
    /\ RunUnchanged

Next ==
    \/ FetchTickets
    \/ IsBusinessHours
    \/ StartTicket
    \/ AddPriorityDowngradeNote
    \/ RouteTicket
    \/ GenerateAnalysis
    \/ AssignTicket
    \/ Summarize

Spec == Init /\ [][Next]_vars

\* the ticket whose result or error was recorded last, once it was
Finished == run # Nil /\ run.pc \in {"ticket", "done"} /\ run.i > 1

LastTicket == run.tickets[run.i - 1]

-----------------------------------------------------------------------------
(* Claims C11 to C13, C15, C18 and C19: process_tickets *)

\* positions of `errors` that name ticket id
ErrorsOf(id) == {e \in 1..Len(run.errors) : run.errors[e].ticket_id = id}

\* positions of `processed_tickets` that name ticket id
ResultsOf(id) ==
    {p \in 1..Len(run.processed_tickets) : run.processed_tickets[p].ticket_id = id}

\* the requests made for the ticket at hand that are `op`
CallsOf(op) == {k \in 1..Len(run.calls) : run.calls[k].op = op}

LastResult == run.processed_tickets[Len(run.processed_tickets)]

\* C11: an exception raised while one ticket is processed is caught, becomes
\* one error string of the run, and does not abort the batch: every later
\* ticket is still processed and the run returns a summary that is not
\* marked failed.
C11_TicketExceptionDoesNotAbort ==
    (run # Nil /\ run.pc = "done" /\ run.tickets # <<>>)
        => /\ run.summary # Nil
           /\ run.summary.success
           /\ run.summary.errors = run.errors
           /\ \A k \in 1..Len(run.tickets) :
                 /\ ~run.tickets[k].has_subject
                        => Cardinality(ErrorsOf(run.tickets[k].id)) = 1
                 /\ ErrorsOf(run.tickets[k].id) # {}
                        => /\ Cardinality(ErrorsOf(run.tickets[k].id)) = 1
                           /\ ResultsOf(run.tickets[k].id) = {}
                           /\ \A j \in (k + 1)..Len(run.tickets) :
                                 \/ ErrorsOf(run.tickets[j].id) # {}
                                 \/ ResultsOf(run.tickets[j].id) # {}

\* the first ticket of two had no subject and left one error string; the
\* second was assigned and the run ended with a summary
C11_Witness ==
    /\ run # Nil
    /\ run.pc = "done"
    /\ Len(run.tickets) = 2
    /\ ~run.tickets[1].has_subject
    /\ Len(run.summary.errors) = 1
    /\ run.summary.errors[1].ticket_id = run.tickets[1].id
    /\ run.summary.total_processed = 1
    /\ run.summary.processed_tickets[1].ticket_id = run.tickets[2].id
    /\ run.summary.processed_tickets[1].success

FetchFailed ==
    run.fetched \in {"http_error", "timeout", "transport_error", "not_json"}

\* C12: when the initial ticket fetch fails, process_tickets returns a summary
\* marked unsuccessful that carries the fetch error and has no processed
\* ticket: not the summary of a fetch that found no ticket.
C12_FetchFailureReported ==
    (run # Nil /\ run.pc = "done" /\ FetchFailed)
        => /\ run.summary.success = FALSE
           /\ run.summary.total_processed = 0
           /\ run.summary.errors # <<ErrorString(0, "No new tickets found")>>

\* C13: every run over a finite batch ends with a summary: every request it
\* makes (workload probe, generation, priority-adjustment write, assignment
\* write) is made with a timeout, so that no call waits for an answer for
\* ever and a call that timed out is a failure of that call only.
C13_EveryRequestTimesOut ==
    run # Nil
        => /\ \A k \in 1..Len(run.calls) :
                 run.calls[k].op # "find_best_assignee" => run.calls[k].timeout
           /\ run.pc # "hung"

\* C15: while test mode is enabled a run sends no request to the Redmine
\* ticket store: no fetch, no workload probe, no priority-adjustment write and
\* no assignment write.
C15_TestModeNoStoreRequest ==
    (run # Nil /\ TEST_MODE) => run.store_ops = {}

\* the router returned None for the ticket at hand
DeferredNow == \E k \in CallsOf("find_best_assignee") : run.calls[k].outcome = "none"

\* C18: for a ticket the router defers, process_tickets records a result with
\* the placeholder "Pending" assignee and goes on to the next ticket: the
\* analysis generator is not called and no assignment write is requested for
\* that ticket.
C18_DeferredRecordsPendingOnly ==
    (run # Nil /\ DeferredNow)
        => /\ run.pc \in {"ticket", "done"}
           /\ CallsOf("post_generate") = {}
           /\ CallsOf("put_assign") = {}
           /\ run.processed_tickets # <<>>
           /\ LastResult.ticket_id = LastTicket.id
           /\ LastResult.assigned_to.name = "Pending"
           /\ LastResult.assigned_to.user_id = 0
           /\ LastResult.assignment_type = "OUTSIDE_HOURS"
           /\ Cardinality(ResultsOf(LastTicket.id)) = 1

\* outside operating hours a downgraded ticket got the Pending result after
\* its note, and the run went on
C18_Witness ==
    /\ run # Nil
    /\ ~run.is_business_hours
    /\ DeferredNow
    /\ CallsOf("put_note") = {1}
    /\ LastResult.assigned_to.name = "Pending"
    /\ LastResult.priority_downgraded
    /\ run.pc = "done"
    /\ Len(run.tickets) = 2

\* the priority-adjustment write of the ticket at hand was answered with an
\* error
NoteFailedNow ==
    \E k \in CallsOf("put_note") :
        run.calls[k].outcome \in {"http_error", "transport_error"}

\* C19: for a downgraded ticket the priority-adjustment write is requested
\* before routing, and its failure does not block the ticket: routing,
\* generation and the assignment write follow as after a write that
\* succeeded.
C19_NoteBeforeRoutingNeverBlocks ==
    run # Nil
        => /\ (run.cur # Nil /\ run.pc \in {"route", "generate", "assign"}
                 /\ run.cur.arb.was_downgraded)
                => CallsOf("put_note") = {1}
           /\ (Finished /\ ResultsOf(LastTicket.id) # {}
                 /\ LastResult.priority_downgraded)
                => CallsOf("put_note") = {1}
           /\ CallsOf("put_note") # {}
                => /\ CallsOf("put_note") = {1}
                   /\ \A k \in CallsOf("find_best_assignee") : k = 2
                   /\ Len(run.calls) = 1 /\ run.pc # "hung" => run.pc = "route"
           /\ NoteFailedNow
                => /\ \A e \in 1..Len(run.errors) :
                         run.errors[e].message # "note not written"
                   /\ run.pc = "generate" => CallsOf("find_best_assignee") = {2}
                   /\ (Finished /\ ResultsOf(LastTicket.id) # {}
                         /\ LastResult.assignment_type # "OUTSIDE_HOURS")
                        => /\ CallsOf("put_assign") # {}
                           /\ \A k \in CallsOf("put_assign") : k > 2

\* the note of a downgraded ticket was refused by the store, and the ticket
\* was then routed to Tier1, analysed and assigned
C19_Witness ==
    /\ Finished
    /\ run.calls # <<>>
    /\ run.calls[1] = Call("put_note", "http_error")
    /\ CallsOf("post_generate") # {}
    /\ CallsOf("put_assign") # {}
    /\ LastResult.ticket_id = LastTicket.id
    /\ LastResult.assignment_type = "L1_BUSINESS_HOURS"
    /\ LastResult.success

-----------------------------------------------------------------------------
(* Claims C21, C24 and C25: the counters of the summary *)

\* the result holds text the generation backend returned and lines 329-335
\* accepted, not the text of the fallback or of the placeholder
FromBackend(result) ==
    \E backend \in RunBackendOutcomes :
        /\ AnalysisOf(backend) # <<>>
        /\ result.ai_analysis = AnalysisOf(backend)

\* C21: the generation counter of the summary (ollama_analyses) is the number
\* of tickets of the run for which the generation backend call succeeded; a
\* ticket whose text came from the fallback (timeout, status other than 200,
\* transport error, empty output) is not counted.
C21_AnalysesCountBackendSuccesses ==
    (run # Nil /\ run.pc = "done" /\ run.tickets # <<>>)
        => run.summary.ollama_analyses =
              Cardinality({p \in 1..Len(run.summary.processed_tickets) :
                              FromBackend(run.summary.processed_tickets[p])})

\* C24: for every batch that is not empty and whose run is not fatal, each
\* ticket is accounted for exactly once in the summary: it has one entry of
\* processed_tickets or one error string, so total_processed plus the number
\* of error strings is the size of the batch, and total_processed is the
\* length of processed_tickets.
C24_EachTicketAccountedOnce ==
    (run # Nil /\ run.pc = "done" /\ run.tickets # <<>> /\ run.summary.success)
        => /\ run.summary.total_processed = Len(run.summary.processed_tickets)
           /\ run.summary.total_processed + Len(run.summary.errors)
                 = Len(run.tickets)
           /\ \A k \in 1..Len(run.tickets) :
                 Cardinality({p \in 1..Len(run.summary.processed_tickets) :
                     run.summary.processed_tickets[p].ticket_id = run.tickets[k].id})
                 + Cardinality({e \in 1..Len(run.summary.errors) :
                     run.summary.errors[e].ticket_id = run.tickets[k].id})
                 = 1

\* a batch of two: the assignment write of the first ticket was refused, so
\* that it has an entry that is not a success, and the second had no subject
C24_Witness ==
    /\ run # Nil
    /\ run.pc = "done"
    /\ Len(run.tickets) = 2
    /\ run.summary.total_processed = 1
    /\ ~run.summary.processed_tickets[1].success
    /\ run.summary.processed_tickets[1].ticket_id = run.tickets[1].id
    /\ Len(run.summary.errors) = 1
    /\ run.summary.errors[1].ticket_id = run.tickets[2].id

\* C25: in every summary priority_adjustments is the number of entries of
\* processed_tickets whose priority_downgraded flag is true, also in runs in
\* which a ticket raised an exception after its priority was adjusted.
C25_AdjustmentsCountDowngradedResults ==
    (run # Nil /\ run.pc = "done" /\ run.summary # Nil)
        => run.summary.priority_adjustments =
              Cardinality({p \in 1..Len(run.summary.processed_tickets) :
                  run.summary.processed_tickets[p].priority_downgraded})

-----------------------------------------------------------------------------
(* Claims C22 and C23: the fallback message *)

\* the message analyze_with_ollama returned is the fallback's, and these are
\* its parts
FallbackReturned == gen # Nil /\ gen.result.source = "fallback"

ReturnedParts == FallbackParts(ticket, gen.environment)

\* C22: the fallback message consists of, in order: an acknowledgment, an
\* initial assessment that names the category, a fixed information request of
\* exactly two items (business impact, error details), the diagnostic commands
\* of the category, and a next-steps notice saying that the response was
\* generated automatically.
C22_FallbackTemplate ==
    FallbackReturned
        => /\ gen.result.text =
                 ReturnedParts.acknowledgment \o ReturnedParts.initial_assessment
                 \o ReturnedParts.information_header
                 \o ReturnedParts.information_items
                 \o ReturnedParts.diagnostic_commands \o ReturnedParts.next_steps
           /\ Len(ReturnedParts.information_items) = 2
           /\ ReturnedParts.information_items =
                 <<"1. **Business Impact:** Does this affect business operations, end users, or revenue?",
                   "2. **Error Details:** Please provide any error messages, logs, or specific symptoms observed.">>

\* a keyword of category k occurs in the lowercased subject or in the
\* lowercased description
KeywordOccurs(k, t) ==
    \E word \in Categories[k].keywords :
        \/ StrIn(word, Lower(SubjectOf(t)))
        \/ StrIn(word, Lower(DescriptionOf(t)))

\* category k is the one the claim names for ticket t: the first of the seven
\* technologies with a keyword in the text, the general one when none has
ClaimedCategory(k, t) ==
    \/ /\ k \in 1..7
       /\ KeywordOccurs(k, t)
       /\ \A j \in 1..(k - 1) : ~KeywordOccurs(j, t)
    \/ /\ k = 8
       /\ \A j \in 1..7 : ~KeywordOccurs(j, t)

\* the message is the one written for category k
WrittenFor(k) ==
    /\ ReturnedParts.initial_assessment =
          <<"**Initial Assessment:**", "This appears to be a ">>
          \o Categories[k].name
          \o <<" issue that requires additional information for proper diagnosis and resolution.">>
    /\ SubSeq(ReturnedParts.diagnostic_commands, 3,
              Len(ReturnedParts.diagnostic_commands)) = Categories[k].commands
    /\ \E from \in 1..Len(gen.result.text) :
          SubSeq(gen.result.text, from, from + Len(Categories[k].name) - 1)
              = Categories[k].name

\* C23: the fallback classifier picks the first category, in the order
\* Kubernetes, RabbitMQ, Redis, Kafka, Elasticsearch, GitLab CI/CD, Database,
\* that has a keyword occurring in the lowercased subject and description; of
\* several categories that match the earliest wins, and when none matches the
\* general Infrastructure category is used.
C23_FirstMatchingCategory ==
    FallbackReturned
        => /\ Len(Categories) = 8
           /\ \E k \in 1..8 : ClaimedCategory(k, ticket) /\ WrittenFor(k)
           /\ \A k \in 1..8 : WrittenFor(k) => ClaimedCategory(k, ticket)

\* subject and description name Redis and Elasticsearch, and the message is
\* the one for Redis, the earlier of the two
C23_Witness ==
    /\ FallbackReturned
    /\ KeywordOccurs(3, ticket)
    /\ KeywordOccurs(5, ticket)
    /\ ~KeywordOccurs(1, ticket)
    /\ ~KeywordOccurs(2, ticket)
    /\ Categories[3].name = <<"R", "e", "d", "i", "s", " ", "C", "a", "c", "h", "e", " ", "S", "e", "r", "v", "i", "c", "e">>
    /\ WrittenFor(3)

-----------------------------------------------------------------------------
(* process_tickets called twice at the same time on one Redmine *)

\* the two process_tickets calls: nothing in src/ keeps a second call, of
\* another worker or another instance of the service, from running while
\* the first one is between two of its requests
Runs == {1, 2}

\* the new tickets of the project
RaceIssues == {101, 102}

\* the adjusted priority analyze_priority_and_environment gives a ticket
RacePriorities == {"P1(Critical)", "P3(Medium)"}

\* In Progress issues a Tier1 member holds before the calls: none, or up to
\* two below the capacity, or as many as the capacity
HeldCounts == {0} \cup ((MaxTickets - 2)..MaxTickets)

RaceL1Rosters ==
    {SubSeq(ConfiguredL1, 1, n) : n \in 1..Smaller(MaxL1, Len(ConfiguredL1))}

RaceL2Rosters == {SubSeq(ConfiguredL2, 1, 1)}

\* the outcomes of the PUT of line 509 after which the call goes on
RacePutOutcomes == {"ok", "http_error"}

\* total_count of GET /issues.json?assigned_to_id=<user_id>&status_id=2 (lines
\* 170-181): the In Progress issues assigned to the user
ActiveCount(user_id) ==
    LET held == IF user_id \in DOMAIN redmine.held
                THEN redmine.held[user_id] ELSE 0
    IN  held + Cardinality({t \in RaceIssues :
                 /\ redmine.issues[t].assigned_to_id = user_id
                 /\ redmine.issues[t].status_id = 2})

\* what the workload methods answer when find_best_assignee asks for the
\* members of a roster: method 1 reports the count of the store
WorkloadAnswers(members) ==
    [i \in 1..Len(members) |-> <<Counted(ActiveCount(members[i].user_id))>>]

\* the issues GET /issues.json returns for the params of lines 76-81: status
\* New, assigned to the team group
NewIssues ==
    {t \in RaceIssues :
        /\ redmine.issues[t].status_id = 1
        /\ redmine.issues[t].assigned_to_id = DEVOPS_TEAM_GROUP_ID}

\* the orders a set of issues can be listed in (the request names none)
Orderings(S) ==
    {order \in [1..Cardinality(S) -> S] :
        \A i, j \in 1..Cardinality(S) : i # j => order[i] # order[j]}

\* a call before its first request
IdleRun ==
    [pc |-> "fetch", tickets |-> <<>>, i |-> 0, is_business_hours |-> FALSE,
     decision |-> Nil]

\* `for ticket in tickets` going to its next ticket, or past the last one
NextTicket(r) ==
    IF r.i < Len(r.tickets)
    THEN [r EXCEPT !.pc = "route", !.i = r.i + 1, !.decision = Nil]
    ELSE [r EXCEPT !.pc = "done", !.decision = Nil]

InitRace ==
    /\ TEST_MODE = FALSE
    /\ L1_MEMBERS \in RaceL1Rosters
    /\ L2_MEMBERS \in RaceL2Rosters
    /\ ticket = Nil
    /\ arb = Nil
    /\ probe = Nil
    /\ route = Nil
    /\ gen = Nil
    /\ run = Nil
    /\ store = Nil
    /\ assign = Nil
    /\ \E held \in [{L1_MEMBERS[i].user_id : i \in 1..Len(L1_MEMBERS)} -> HeldCounts],
          priority \in [RaceIssues -> RacePriorities] :
          redmine = [held     |-> held,
                     priority |-> priority,
                     issues   |-> [t \in RaceIssues |-> NewIssue(t)]]
    /\ runs = [r \in Runs |-> IdleRun]

\* lines 531-541 of one call: get_new_devops_tickets, the return on an empty
\* list, is_business_hours
RunFetches(r) ==
    /\ runs[r].pc = "fetch"
    /\ \E order \in Orderings(NewIssues), is_business_hours \in BOOLEAN :
          runs' = [runs EXCEPT ![r] =
                      IF order = <<>>
                      THEN [IdleRun EXCEPT !.pc = "done"]
                      ELSE [pc |-> "route", tickets |-> order, i |-> 1,
                            is_business_hours |-> is_business_hours,
                            decision |-> Nil]]
    /\ UNCHANGED <<TEST_MODE, L1_MEMBERS, L2_MEMBERS, ticket, arb, probe, route, gen,
                 run, store, assign, redmine>>

\* line 558 of one call, with the `continue` of lines 560-574 when nobody is
\* to be assigned
RunRoutes(r) ==
    /\ runs[r].pc = "route"
    /\ LET t        == runs[r].tickets[runs[r].i]
           decision == find_best_assignee(TEST_MODE, L1_MEMBERS, L2_MEMBERS,
                           redmine.priority[t], runs[r].is_business_hours,
                           WorkloadAnswers(L1_MEMBERS), WorkloadAnswers(L2_MEMBERS),
                           WorkloadAnswers(L2_MEMBERS)[1])
       IN  runs' = [runs EXCEPT ![r] =
                       IF decision.kind = "assigned"
                       THEN [@ EXCEPT !.pc = "assign", !.decision = decision]
                       ELSE NextTicket(@)]
    /\ UNCHANGED <<TEST_MODE, L1_MEMBERS, L2_MEMBERS, ticket, arb, probe, route, gen,
                 run, store, assign, redmine>>

\* line 582 of one call: assign_ticket_in_redmine for the member chosen at
\* line 558, whatever the store has come to hold since
RunAssigns(r) ==
    /\ runs[r].pc = "assign"
    /\ \E outcome \in RacePutOutcomes :
          LET t   == runs[r].tickets[runs[r].i]
              did == assign_ticket_in_redmine(redmine.issues[t],
                         runs[r].decision.member, <<"o", "k">>, 0, outcome)
          IN  redmine' = [redmine EXCEPT !.issues[t] = did.issue]
    /\ runs' = [runs EXCEPT ![r] = NextTicket(@)]
    /\ UNCHANGED <<TEST_MODE, L1_MEMBERS, L2_MEMBERS, ticket, arb, probe, route, gen,
                 run, store, assign>>

NextRace == \E r \in Runs : RunFetches(r) \/ RunRoutes(r) \/ RunAssigns(r)

SpecRace == InitRace /\ [][NextRace]_vars

-----------------------------------------------------------------------------
(* Claim C26: the capacity of Tier1 under concurrent calls *)

\* C26: with a ticket store in which a successful assignment raises the
\* responder's active count by one, no Tier1 responder's active count ever
\* exceeds its capacity as a result of Tier1 assignments, across the tickets
\* of one call of process_tickets and when two calls interleave their probe
\* and assignment steps.
C26_Tier1NeverOverCapacity ==
    redmine # Nil
        => \A i \in 1..Len(L1_MEMBERS) :
              ActiveCount(L1_MEMBERS[i].user_id) <= L1_MEMBERS[i].max_tickets

====
